---- MODULE Spec2Model ----
(***************************************************************************)
(* Model of addTraceRequestStats.ts (apollo-server-core usage reporting):  *)
(* the per-request walk of the variable values and of the operation        *)
(* document that fills trace.perInputTypeStat and trace.perEnumTypeStat.   *)
(***************************************************************************)
EXTENDS Integers, Sequences, FiniteSets, TLC

(***************************************************************************)
(* Bounds of the explored requests.                                        *)
(***************************************************************************)
\* most variable definitions of one operation
MaxVars == 2
\* most ObjectField / EnumValue nodes of one operation document
MaxNodes == 2
\* longest list value
MaxLen == 1

(***************************************************************************)
(* GraphQL input types (graphql-js GraphQLInputType), as tagged records.   *)
(***************************************************************************)
NonNull(t) == [kind |-> "NonNull", ofType |-> t]
List(t) == [kind |-> "List", ofType |-> t]
InputObject(n) == [kind |-> "InputObject", name |-> n]
Scalar(n) == [kind |-> "Scalar", name |-> n]
Enum(n) == [kind |-> "Enum", name |-> n]
\* an output type: typeFromAST resolves it, isInputType rejects it
ObjectType(n) == [kind |-> "Object", name |-> n]
\* typeFromAST found no type of that name
Undefined == [kind |-> "Undefined"]

isNonNullType(t) == t.kind = "NonNull"
isListType(t) == t.kind = "List"
isInputObjectType(t) == t.kind = "InputObject"
isScalarType(t) == t.kind = "Scalar"
isEnumType(t) == t.kind = "Enum"

RECURSIVE isInputType(_)
isInputType(t) ==
    IF t.kind \in {"NonNull", "List"} THEN isInputType(t.ofType)
    ELSE t.kind \in {"InputObject", "Scalar", "Enum"}

RECURSIVE getNamedType(_)
getNamedType(t) ==
    IF t.kind \in {"NonNull", "List"} THEN getNamedType(t.ofType) ELSE t

\* GraphQLType.toString(): the canonical signature, "[String!]", "Int!"
RECURSIVE typeToString(_)
typeToString(t) ==
    IF t.kind = "NonNull" THEN typeToString(t.ofType) \o "!"
    ELSE IF t.kind = "List" THEN "[" \o typeToString(t.ofType) \o "]"
    ELSE t.name

(***************************************************************************)
(* The schema of the explored requests:                                    *)
(*   input Filter { name: String, tags: [String!], color: Color,           *)
(*                  page: Page }                                           *)
(*   input Page { size: Int!, limit: Int! = 1 }                            *)
(*   enum Color { RED GREEN }                                              *)
(*   scalar Date    (parseValue yields undefined for a non-string)         *)
(***************************************************************************)
Field(n, t, d) == [name |-> n, type |-> t, hasDefault |-> d]

\* inputType.getFields(), in declaration order
getFields(typeName) ==
    IF typeName = "Filter" THEN
        << Field("name", Scalar("String"), FALSE),
           Field("tags", List(NonNull(Scalar("String"))), FALSE),
           Field("color", Enum("Color"), FALSE),
           Field("page", InputObject("Page"), FALSE) >>
    ELSE IF typeName = "Page" THEN
        << Field("size", NonNull(Scalar("Int")), FALSE),
           Field("limit", NonNull(Scalar("Int")), TRUE) >>
    ELSE << >>

FieldNames(typeName) ==
    { getFields(typeName)[i].name : i \in DOMAIN getFields(typeName) }

\* the members of an enum type; inputType.getValue(name) finds one by name
EnumValues(typeName) == IF typeName = "Color" THEN {"RED", "GREEN"} ELSE {}

(***************************************************************************)
(* Runtime values (JSON): null, string, number, array, object.             *)
(***************************************************************************)
Null == [k |-> "null"]
Str(s) == [k |-> "str", s |-> s]
Num(n) == [k |-> "num", n |-> n]
Arr(items) == [k |-> "list", items |-> items]
Obj(fields) == [k |-> "obj", fields |-> fields]
\* the result of reading a property the value does not have
JsUndefined == [k |-> "undefined"]

\* scalarType.parseValue(value): "value", "undefined", or "throws"
parseValue(scalarName, value) ==
    IF scalarName = "String" THEN (IF value.k = "str" THEN "value" ELSE "throws")
    ELSE IF scalarName = "Int" THEN (IF value.k = "num" THEN "value" ELSE "throws")
    ELSE IF scalarName = "Date" THEN (IF value.k = "str" THEN "value" ELSE "undefined")
    ELSE "throws"

\* typeof inputValue, for a value that is not null
typeOf(value) ==
    IF value.k \in {"list", "obj"} THEN "object"
    ELSE IF value.k = "str" THEN "string"
    ELSE IF value.k = "num" THEN "number"
    ELSE "undefined"

\* inputValue[name] on an object or an array
getProperty(value, name) ==
    IF value.k = "obj" /\ name \in DOMAIN value.fields THEN value.fields[name]
    ELSE IF value.k = "list" /\ name = "length" THEN Num(Len(value.items))
    ELSE JsUndefined

\* Object.keys(inputValue): an object's keys, an array's indices
objectKeys(value) ==
    IF value.k = "obj" THEN DOMAIN value.fields
    ELSE IF value.k = "list" THEN { ToString(i - 1) : i \in DOMAIN value.items }
    ELSE {}

(***************************************************************************)
(* The Stats Aggregator: inputFieldIsInRequest and enumValueIsInRequest.   *)
(***************************************************************************)
\* obj[key] = value on a mapping
Put(f, key, value) ==
    [x \in (DOMAIN f) \cup {key} |-> IF x = key THEN value ELSE f[x]]

EmptyMap == << >>

EmptyTrace == [perInputTypeStat |-> EmptyMap, perEnumTypeStat |-> EmptyMap]

\* new InputFieldStat(): the protobuf defaults
NewInputFieldStat == [fieldType |-> "", requestCount |-> 0, requestCountNull |-> 0]

\* new EnumValueStat()
NewEnumValueStat == [requestCount |-> 0]

\* a faulty variant of setRequestCount: a counter instead of a presence flag
setRequestCountIncrement(old) == old + 1

\* inputFieldStat.requestCount = 1 / enumValueStat.requestCount = 1
setRequestCount(old) == 1

\* a faulty variant of setRequestCountNull: a non-null occurrence resets the flag
setRequestCountNullLastWins(old, isNull) == IF isNull THEN 1 ELSE 0

\* if (isNull) inputFieldStat.requestCountNull = 1
setRequestCountNull(old, isNull) == IF isNull THEN 1 ELSE old

inputFieldIsInRequest(tr, inputObjectTypeName, inputFieldName, inputFieldTypeName, isNull) ==
    LET stats == tr.perInputTypeStat
        perInputFieldStat ==
            IF inputObjectTypeName \in DOMAIN stats
            THEN stats[inputObjectTypeName].perInputFieldStat
            ELSE EmptyMap
        inputFieldStat ==
            IF inputFieldName \in DOMAIN perInputFieldStat
            THEN perInputFieldStat[inputFieldName]
            ELSE NewInputFieldStat
        written ==
            [fieldType |-> inputFieldTypeName,
             requestCount |-> setRequestCount(inputFieldStat.requestCount),
             requestCountNull |-> setRequestCountNull(inputFieldStat.requestCountNull, isNull)]
    IN  [tr EXCEPT !.perInputTypeStat =
            Put(stats, inputObjectTypeName,
                [perInputFieldStat |-> Put(perInputFieldStat, inputFieldName, written)])]

enumValueIsInRequest(tr, enumTypeName, enumValueName) ==
    LET stats == tr.perEnumTypeStat
        perEnumValueStat ==
            IF enumTypeName \in DOMAIN stats
            THEN stats[enumTypeName].perEnumValueStat
            ELSE EmptyMap
        enumValueStat ==
            IF enumValueName \in DOMAIN perEnumValueStat
            THEN perEnumValueStat[enumValueName]
            ELSE NewEnumValueStat
        written == [requestCount |-> setRequestCount(enumValueStat.requestCount)]
    IN  [tr EXCEPT !.perEnumTypeStat =
            Put(stats, enumTypeName,
                [perEnumValueStat |-> Put(perEnumValueStat, enumValueName, written)])]

(***************************************************************************)
(* The Type Walker: addTraceInputValueStats.  A walk returns the trace as  *)
(* it stands when the walk returns or throws, and the error thrown.        *)
(***************************************************************************)
NoError == "none"

Ok(tr) == [trace |-> tr, thrown |-> NoError]
Throw(tr, message) == [trace |-> tr, thrown |-> message]

\* a faulty variant of isCollection: every value is iterated as a collection, so a
\* bare value yields no item
isCollectionAlways(value) == TRUE

\* isCollection(inputValue): an array is a collection; a string, a number and
\* an object of the explored values (none has a numeric length) are not
isCollection(value) == value.k = "list"

\* the items forEach(inputValue, iterator) iterates
collectionItems(value) == IF value.k = "list" THEN value.items ELSE << >>

\* a faulty variant of hasUndeclaredField: provided fields are not checked
hasUndeclaredFieldNever(inputValue, typeName) == FALSE

\* for (const fieldName of Object.keys(inputValue))
\*   if (!inputFields[fieldName]) throw
hasUndeclaredField(inputValue, typeName) ==
    \E fieldName \in objectKeys(inputValue) : fieldName \notin FieldNames(typeName)

\* a faulty variant of inputFieldTypeName: the named type without its wrappers
inputFieldTypeNameBare(fieldType) == typeToString(getNamedType(fieldType))

\* inputField.type.toString() / inputType.toString()
inputFieldTypeName(fieldType) == typeToString(fieldType)

\* isNull: inputFieldValue === null
valueIsNull(inputFieldValue) == inputFieldValue.k = "null"

RECURSIVE addTraceInputValueStats(_, _, _)
RECURSIVE forEachItem(_, _, _, _)
RECURSIVE forEachInputField(_, _, _, _)

addTraceInputValueStats(tr, inputValue, inputType) ==
    IF isNonNullType(inputType) THEN
        IF inputValue.k # "null"
        THEN addTraceInputValueStats(tr, inputValue, inputType.ofType)
        ELSE Throw(tr, "Non-null type cannot be provided null value.")
    ELSE IF inputValue.k = "null" THEN Ok(tr)
    ELSE IF isListType(inputType) THEN
        IF isCollection(inputValue)
        THEN forEachItem(tr, collectionItems(inputValue), inputType.ofType, 1)
        ELSE addTraceInputValueStats(tr, inputValue, inputType.ofType)
    ELSE IF isInputObjectType(inputType) THEN
        IF typeOf(inputValue) # "object"
        THEN Throw(tr, "Input object type must be provided object value.")
        ELSE LET r == forEachInputField(tr, inputValue, inputType, 1)
             IN  IF r.thrown # NoError THEN r
                 ELSE IF hasUndeclaredField(inputValue, inputType.name)
                 THEN Throw(r.trace, "Input object type does not have provided field name.")
                 ELSE r
    ELSE IF isScalarType(inputType) THEN
        LET parseResult == parseValue(inputType.name, inputValue)
        IN  IF parseResult = "throws"
            THEN Throw(tr, "Scalar type threw while parsing provided value.")
            ELSE IF parseResult = "undefined"
            THEN Throw(tr, "Scalar type returned undefined when parsing provided value.")
            ELSE Ok(tr)
    ELSE IF isEnumType(inputType) THEN
        IF typeOf(inputValue) = "string" /\ inputValue.s \in EnumValues(inputType.name)
        THEN Ok(enumValueIsInRequest(tr, inputType.name, inputValue.s))
        ELSE Throw(tr, "Enum type does not have provided enum value.")
    ELSE Throw(tr, "Unexpected input type.")

\* forEach(inputValue, iterator): the items in order, up to the first throw
forEachItem(tr, items, itemType, i) ==
    IF i > Len(items) THEN Ok(tr)
    ELSE LET r == addTraceInputValueStats(tr, items[i], itemType)
         IN  IF r.thrown # NoError THEN r
             ELSE forEachItem(r.trace, items, itemType, i + 1)

\* for (const inputField of Object.values(inputFields))
forEachInputField(tr, inputValue, inputType, i) ==
    LET inputFields == getFields(inputType.name)
    IN  IF i > Len(inputFields) THEN Ok(tr)
        ELSE LET inputField == inputFields[i]
                 inputFieldValue == getProperty(inputValue, inputField.name)
             IN  IF inputFieldValue.k = "undefined" THEN
                     IF ~inputField.hasDefault /\ isNonNullType(inputField.type)
                     THEN Throw(tr, "Non-null input field with no default must have value provided.")
                     ELSE forEachInputField(tr, inputValue, inputType, i + 1)
                 ELSE LET recorded ==
                              inputFieldIsInRequest(tr, inputType.name, inputField.name,
                                  inputFieldTypeName(inputField.type),
                                  valueIsNull(inputFieldValue))
                          r == addTraceInputValueStats(recorded, inputFieldValue, inputField.type)
                      IN  IF r.thrown # NoError THEN r
                          ELSE forEachInputField(r.trace, inputValue, inputType, i + 1)

(***************************************************************************)
(* The requests explored: variable definitions, provided values, nodes.    *)
(***************************************************************************)
\* the name of the i-th variable definition of the operation
VarName(i) == "v" \o ToString(i)

\* varDefinition.defaultValue: absent, a NullValue literal, another literal
DefaultValues == {"none", "NullValue", "Other"}

\* typeFromAST(schema, varDefinition.type) of the declared variables
VarTypes ==
    { InputObject("Filter"), NonNull(List(InputObject("Filter"))),
      List(NonNull(Enum("Color"))), NonNull(Scalar("Int")), Scalar("Date"),
      ObjectType("Query"), Undefined }

ScalarValues == { Str("x"), Str("RED"), Num(1) }

SeqsUpTo(S, n) == UNION { [1..m -> S] : m \in 0..n }

ListValues(S) == { Arr(items) : items \in SeqsUpTo(S, MaxLen) }

\* the values a provided Filter object may give each key; "bogus" is no field
KeyValues(key) ==
    IF key = "name" THEN { Null, Str("x") }
    ELSE IF key = "tags" THEN { Str("x") } \cup ListValues({ Str("x"), Null })
    ELSE IF key = "color" THEN { Str("RED"), Str("x") }
    ELSE IF key = "page"
    THEN { Obj(<< >>), Obj([size |-> Num(1)]), Obj([size |-> Num(1), bogus |-> Num(1)]) }
    ELSE { Num(1) }

FilterKeys == { "name", "tags", "color", "page", "bogus" }

\* objects of at most two keys
FilterValues ==
    { Obj(f) : f \in UNION { { g \in [S -> UNION { KeyValues(k) : k \in S }] :
                                 \A k \in S : g[k] \in KeyValues(k) } :
                             S \in { T \in SUBSET FilterKeys : Cardinality(T) <= 2 } } }

\* variables[varName] for a variable of the type: JsUndefined when the provided
\* values do not hold the variable, else primitives, lists and an object for
\* every type, and the Filter objects for the types that name Filter
ProvidedValues(varType) ==
    { JsUndefined, Null } \cup ScalarValues \cup ListValues(ScalarValues \cup { Null })
        \cup { Obj([name |-> Str("x")]) }
        \cup IF varType # Undefined /\ getNamedType(varType) = InputObject("Filter")
             THEN FilterValues \cup ListValues({ Obj([name |-> Null]), Obj([bogus |-> Num(1)]) })
             ELSE {}

\* the ObjectField nodes of the operation document, with what TypeInfo holds
\* on entering each: getParentInputType(), getInputType()
NodeValueKinds ==
    { [kind |-> "NullValue"], [kind |-> "StringValue"] }
        \cup { [kind |-> "Variable", name |-> VarName(i)] : i \in 1..MaxVars }

ObjectFieldNode(parent, type, fieldName, value) ==
    [kind |-> "ObjectField", parentInputType |-> parent, inputType |-> type,
     name |-> fieldName, value |-> value]

ObjectFieldNodes ==
    { ObjectFieldNode(InputObject("Filter"), Scalar("String"), "name", v) : v \in NodeValueKinds }
  \cup
    { ObjectFieldNode(NonNull(InputObject("Filter")), InputObject("Page"), "page",
                      [kind |-> "NullValue"]),
      ObjectFieldNode(InputObject("Page"), NonNull(Scalar("Int")), "size",
                      [kind |-> "Variable", name |-> VarName(1)]),
      \* a document that was not validated: no such field, no enclosing input type
      ObjectFieldNode(InputObject("Filter"), Undefined, "bogus", [kind |-> "NullValue"]),
      ObjectFieldNode(Undefined, Undefined, "name", [kind |-> "NullValue"]) }

EnumValueNode(type, value) == [kind |-> "EnumValue", inputType |-> type, value |-> value]

EnumValueNodes ==
    { EnumValueNode(Enum("Color"), "RED"), EnumValueNode(List(NonNull(Enum("Color"))), "GREEN"),
      EnumValueNode(Undefined, "RED") }

NoNode == [kind |-> "none"]

(***************************************************************************)
(* The Variable Classifier: one iteration of the loop over                 *)
(* operation.variableDefinitions.                                          *)
(***************************************************************************)
\* a faulty variant of omittedIsNull: a NullValue default is not counted as null
omittedIsNullNoDefaultOnly(defaultValue) == defaultValue = "none"

\* !varDefinition.defaultValue || varDefinition.defaultValue.kind === 'NullValue'
omittedIsNull(defaultValue) == defaultValue \in { "none", "NullValue" }

\* Object.prototype.hasOwnProperty.call(variables, varName)
hasOwnProperty(provided) == provided.k # "undefined"

Classified(tr, nulls, message) ==
    [trace |-> tr, nullVariableNames |-> nulls, thrown |-> message]

classifyVariable(tr, nulls, varName, varType, defaultValue, provided) ==
    IF varType = Undefined \/ ~isInputType(varType)
    THEN Classified(tr, nulls, "Variable type must be input type.")
    ELSE IF ~hasOwnProperty(provided) THEN
        IF defaultValue = "none" /\ isNonNullType(varType)
        THEN Classified(tr, nulls, "Non-null variable with no default must have value provided.")
        ELSE IF omittedIsNull(defaultValue)
        THEN Classified(tr, nulls \cup { varName }, NoError)
        ELSE Classified(tr, nulls, NoError)
    ELSE IF provided.k = "null" /\ isNonNullType(varType)
    THEN Classified(tr, nulls, "Non-null variable cannot be provided null value.")
    ELSE LET added == IF provided.k = "null" THEN nulls \cup { varName } ELSE nulls
             r == addTraceInputValueStats(tr, provided, varType)
         IN  Classified(r.trace, added, r.thrown)

(***************************************************************************)
(* The Document Scanner: the two visitor callbacks.                        *)
(***************************************************************************)
\* node.value.kind === 'NullValue' ||
\*   (node.value.kind === 'Variable' && nullVariableNames.has(node.value.name.value))
objectFieldIsNull(value, nulls) ==
    IF value.kind = "NullValue" THEN TRUE
    ELSE IF value.kind = "Variable" THEN value.name \in nulls
    ELSE FALSE

\* ObjectField(node): getNamedType(undefined).name and undefined.toString()
\* throw a TypeError
visitObjectField(tr, nulls, n) ==
    IF n.parentInputType = Undefined \/ n.inputType = Undefined
    THEN Throw(tr, "TypeError")
    ELSE Ok(inputFieldIsInRequest(tr, getNamedType(n.parentInputType).name, n.name,
                inputFieldTypeName(n.inputType), objectFieldIsNull(n.value, nulls)))

\* EnumValue(node)
visitEnumValue(tr, n) ==
    IF n.inputType = Undefined
    THEN Throw(tr, "TypeError")
    ELSE Ok(enumValueIsInRequest(tr, getNamedType(n.inputType).name, n.value))

(***************************************************************************)
(* The Request Orchestrator: addTraceRequestStats.                         *)
(***************************************************************************)
\* a faulty variant of catchClear: only the input type statistics are reset
catchClearInputTypesOnly(tr) == [tr EXCEPT !.perInputTypeStat = EmptyMap]

\* trace.perInputTypeStat = Object.create(null);
\* trace.perEnumTypeStat = Object.create(null);
catchClear(tr) == [perInputTypeStat |-> EmptyMap, perEnumTypeStat |-> EmptyMap]

\* a faulty variant of onThrow: the try block ends before the document scan
onThrowScanOutsideTry(phase) == IF phase = "scan" THEN "propagated" ELSE "catch"

\* a faulty variant of onThrow: an error of a variable is swallowed where it is
\* raised and the document is scanned all the same
onThrowVariablesSwallowed(phase) == IF phase = "variables" THEN "scan" ELSE "catch"

\* where control goes when a statement of the try block throws
onThrow(phase) == "catch"

(***************************************************************************)
(* What a request asks for, stated on the inputs alone (value against      *)
(* type), independently of the walk: the claims are stated with these.     *)
(***************************************************************************)
\* the value conforms to the input type
RECURSIVE Conforms(_, _)
Conforms(value, type) ==
    IF type.kind = "NonNull" THEN value.k # "null" /\ Conforms(value, type.ofType)
    ELSE IF value.k = "null" THEN TRUE
    ELSE IF type.kind = "List" THEN
        IF value.k = "list"
        THEN \A i \in DOMAIN value.items : Conforms(value.items[i], type.ofType)
        ELSE Conforms(value, type.ofType)
    ELSE IF type.kind = "InputObject" THEN
        /\ value.k = "obj"
        /\ DOMAIN value.fields \subseteq FieldNames(type.name)
        /\ \A i \in DOMAIN getFields(type.name) :
              LET f == getFields(type.name)[i]
              IN  IF f.name \in DOMAIN value.fields
                  THEN Conforms(value.fields[f.name], f.type)
                  ELSE f.hasDefault \/ f.type.kind # "NonNull"
    ELSE IF type.kind = "Scalar" THEN parseValue(type.name, value) = "value"
    ELSE IF type.kind = "Enum" THEN value.k = "str" /\ value.s \in EnumValues(type.name)
    ELSE FALSE

\* the input-object fields a value supplies: << type, field, supplied as null >>
RECURSIVE FieldOccurrences(_, _)
FieldOccurrences(value, type) ==
    IF type.kind = "NonNull" THEN FieldOccurrences(value, type.ofType)
    ELSE IF value.k = "null" THEN {}
    ELSE IF type.kind = "List" THEN
        IF value.k = "list"
        THEN UNION { FieldOccurrences(value.items[i], type.ofType) : i \in DOMAIN value.items }
        ELSE FieldOccurrences(value, type.ofType)
    ELSE IF type.kind = "InputObject" /\ value.k = "obj" THEN
        UNION { LET f == getFields(type.name)[i]
                IN  IF f.name \in DOMAIN value.fields
                    THEN { << type.name, f.name, value.fields[f.name].k = "null" >> }
                             \cup FieldOccurrences(value.fields[f.name], f.type)
                    ELSE {} : i \in DOMAIN getFields(type.name) }
    ELSE {}

\* the enum values a value names: << enum type, value >>
RECURSIVE EnumOccurrences(_, _)
EnumOccurrences(value, type) ==
    IF type.kind = "NonNull" THEN EnumOccurrences(value, type.ofType)
    ELSE IF value.k = "null" THEN {}
    ELSE IF type.kind = "List" THEN
        IF value.k = "list"
        THEN UNION { EnumOccurrences(value.items[i], type.ofType) : i \in DOMAIN value.items }
        ELSE EnumOccurrences(value, type.ofType)
    ELSE IF type.kind = "InputObject" /\ value.k = "obj" THEN
        UNION { LET f == getFields(type.name)[i]
                IN  IF f.name \in DOMAIN value.fields
                    THEN EnumOccurrences(value.fields[f.name], f.type)
                    ELSE {} : i \in DOMAIN getFields(type.name) }
    ELSE IF type.kind = "Enum" /\ value.k = "str" /\ value.s \in EnumValues(type.name)
    THEN { << type.name, value.s >> }
    ELSE {}

\* somewhere an object is given for an input-object type with a key the type
\* does not declare
RECURSIVE HasUndeclaredKey(_, _)
HasUndeclaredKey(value, type) ==
    IF type.kind = "NonNull" THEN HasUndeclaredKey(value, type.ofType)
    ELSE IF value.k = "null" THEN FALSE
    ELSE IF type.kind = "List" THEN
        IF value.k = "list"
        THEN \E i \in DOMAIN value.items : HasUndeclaredKey(value.items[i], type.ofType)
        ELSE HasUndeclaredKey(value, type.ofType)
    ELSE IF type.kind = "InputObject" /\ value.k = "obj" THEN
        \/ \E key \in DOMAIN value.fields : key \notin FieldNames(type.name)
        \/ \E i \in DOMAIN getFields(type.name) :
              LET f == getFields(type.name)[i]
              IN  /\ f.name \in DOMAIN value.fields
                  /\ HasUndeclaredKey(value.fields[f.name], f.type)
    ELSE FALSE

\* somewhere a non-null value that is no keyed record (a primitive, a list)
\* is given for an input-object type
RECURSIVE HasNonRecordForObject(_, _)
HasNonRecordForObject(value, type) ==
    IF type.kind = "NonNull" THEN HasNonRecordForObject(value, type.ofType)
    ELSE IF value.k = "null" THEN FALSE
    ELSE IF type.kind = "List" THEN
        IF value.k = "list"
        THEN \E i \in DOMAIN value.items : HasNonRecordForObject(value.items[i], type.ofType)
        ELSE HasNonRecordForObject(value, type.ofType)
    ELSE IF type.kind = "InputObject" THEN
        \/ value.k # "obj"
        \/ \E i \in DOMAIN getFields(type.name) :
              LET f == getFields(type.name)[i]
              IN  /\ f.name \in DOMAIN value.fields
                  /\ HasNonRecordForObject(value.fields[f.name], f.type)
    ELSE FALSE

\* the variable is effectively null: omitted with no default or a null
\* default, or provided as null
EffectivelyNull(defaultValue, provided) ==
    \/ provided.k = "undefined" /\ defaultValue \in { "none", "NullValue" }
    \/ provided.k = "null"

\* the declaration and the provided value of a variable are valid
ValidVariable(varType, defaultValue, provided) ==
    /\ varType # Undefined
    /\ isInputType(varType)
    /\ IF provided.k = "undefined"
       THEN ~(varType.kind = "NonNull" /\ defaultValue = "none")
       ELSE Conforms(provided, varType)

\* the variable breaks its declaration as the classifier checks it: the type
\* does not resolve, a required variable is omitted, null is given for a
\* non-null variable, or the walk of the provided value fails
ViolatesDeclaration(varType, defaultValue, provided, walkThrown) ==
    \/ varType = Undefined
    \/ ~isInputType(varType)
    \/ provided.k = "undefined" /\ varType.kind = "NonNull" /\ defaultValue = "none"
    \/ provided.k = "null" /\ varType.kind = "NonNull"
    \/ provided.k # "undefined" /\ walkThrown # NoError

\* the field type the schema declares
DeclaredFieldType(typeName, fieldName) ==
    LET fields == getFields(typeName)
    IN  fields[CHOOSE i \in DOMAIN fields : fields[i].name = fieldName].type

\* the document node is valid against the schema
ValidNode(n) ==
    IF n.kind = "ObjectField" THEN
        /\ n.parentInputType # Undefined
        /\ getNamedType(n.parentInputType).kind = "InputObject"
        /\ n.name \in FieldNames(getNamedType(n.parentInputType).name)
        /\ n.inputType = DeclaredFieldType(getNamedType(n.parentInputType).name, n.name)
    ELSE
        /\ n.inputType # Undefined
        /\ getNamedType(n.inputType).kind = "Enum"
        /\ n.value \in EnumValues(getNamedType(n.inputType).name)

\* the object-field node supplies null: a null literal, or a reference to an
\* effectively null variable
NodeSuppliesNull(n, nullVars) ==
    \/ n.value.kind = "NullValue"
    \/ n.value.kind = "Variable" /\ n.value.name \in nullVars

(***************************************************************************)
(* State.                                                                  *)
(***************************************************************************)
VARIABLES
    pc,                 \* where the call is: "variables", "scan", "catch",
                        \* "committed", "discarded" ("propagated": an error
                        \* left the call)
    numVarDefinitions,  \* operation.variableDefinitions.length
    numNodes,           \* ObjectField and EnumValue nodes of operationDocument
    varIdx,             \* variable definitions classified without error
    nodeIdx,            \* nodes visited without error
    trace,              \* trace.perInputTypeStat, trace.perEnumTypeStat
    nullVariableNames,
    node,               \* the node the visitor was last called with
    thrown,             \* the error the try block threw
    \* what the request consumed so far asked for (history of the inputs)
    expectedNull,       \* the effectively null variables
    occurrences,        \* << type, field, null >> supplied
    enumOccurrences,    \* << enum type, value >> named
    valid,              \* every variable and node so far is valid
    violated,           \* a variable broke its declaration
    undeclaredKey,      \* a variable value held an undeclared key
    nonRecord,          \* a variable value gave a non-record for an object type
    partial,            \* statistics had been written when the error was caught
    \* the walker applied on its own
    walkInput, bare, boxed

state == << pc, numVarDefinitions, numNodes, varIdx, nodeIdx, trace,
            nullVariableNames, node, thrown >>

history == << expectedNull, occurrences, enumOccurrences, valid, violated,
              undeclaredKey, nonRecord, partial >>

walker == << walkInput, bare, boxed >>

vars == << state, history, walker >>

NoWalk == [k |-> "none"]

Init ==
    /\ pc = "variables"
    /\ numVarDefinitions \in 0..MaxVars
    /\ numNodes = 0
    /\ varIdx = 0
    /\ nodeIdx = 0
    /\ trace = EmptyTrace
    /\ nullVariableNames = {}
    /\ node = NoNode
    /\ thrown = NoError
    /\ expectedNull = {}
    /\ occurrences = {}
    /\ enumOccurrences = {}
    /\ valid = TRUE
    /\ violated = FALSE
    /\ undeclaredKey = FALSE
    /\ nonRecord = FALSE
    /\ partial = FALSE
    /\ walkInput = NoWalk
    /\ bare = NoWalk
    /\ boxed = NoWalk

\* lines 68-113: one variable definition classified, its value walked
ClassifyVariable ==
    /\ pc = "variables"
    /\ varIdx < numVarDefinitions
    /\ \E varType \in VarTypes, defaultValue \in DefaultValues :
       \E provided \in ProvidedValues(varType) :
          \E r \in { classifyVariable(trace, nullVariableNames, VarName(varIdx + 1),
                                      varType, defaultValue, provided) } :
              /\ trace' = r.trace
              /\ nullVariableNames' = r.nullVariableNames
              /\ thrown' = r.thrown
              /\ pc' = IF r.thrown = NoError THEN "variables" ELSE onThrow("variables")
              /\ varIdx' = IF r.thrown = NoError THEN varIdx + 1 ELSE varIdx
              /\ expectedNull' =
                    IF EffectivelyNull(defaultValue, provided)
                    THEN expectedNull \cup { VarName(varIdx + 1) } ELSE expectedNull
              /\ occurrences' =
                    IF provided.k # "undefined" /\ isInputType(varType)
                    THEN occurrences \cup FieldOccurrences(provided, varType)
                    ELSE occurrences
              /\ enumOccurrences' =
                    IF provided.k # "undefined" /\ isInputType(varType)
                    THEN enumOccurrences \cup EnumOccurrences(provided, varType)
                    ELSE enumOccurrences
              /\ valid' = (valid /\ ValidVariable(varType, defaultValue, provided))
              /\ violated' =
                    (violated \/ ViolatesDeclaration(varType, defaultValue, provided, r.thrown))
              /\ undeclaredKey' =
                    (undeclaredKey \/ (provided.k # "undefined" /\ isInputType(varType)
                                          /\ HasUndeclaredKey(provided, varType)))
              /\ nonRecord' =
                    (nonRecord \/ (provided.k # "undefined" /\ isInputType(varType)
                                      /\ HasNonRecordForObject(provided, varType)))
    /\ UNCHANGED << numVarDefinitions, numNodes, nodeIdx, node, partial, walker >>

\* lines 118-122: the loop is over, the visit of the operation document begins
BeginScan ==
    /\ pc = "variables"
    /\ varIdx = numVarDefinitions
    /\ pc' = "scan"
    /\ numNodes' \in 0..MaxNodes
    /\ UNCHANGED << numVarDefinitions, varIdx, nodeIdx, trace, nullVariableNames,
                    node, thrown, history, walker >>

Visit(n, r) ==
    /\ node' = n
    /\ trace' = r.trace
    /\ thrown' = r.thrown
    /\ pc' = IF r.thrown = NoError THEN "scan" ELSE onThrow("scan")
    /\ nodeIdx' = IF r.thrown = NoError THEN nodeIdx + 1 ELSE nodeIdx
    /\ valid' = (valid /\ ValidNode(n))
    /\ UNCHANGED << numVarDefinitions, numNodes, varIdx, nullVariableNames,
                    expectedNull, violated, undeclaredKey, nonRecord, partial, walker >>

\* lines 123-139
VisitObjectField ==
    /\ pc = "scan"
    /\ nodeIdx < numNodes
    /\ \E n \in ObjectFieldNodes :
          /\ \E r \in { visitObjectField(trace, nullVariableNames, n) } : Visit(n, r)
          /\ occurrences' =
                IF ValidNode(n)
                THEN occurrences \cup { << getNamedType(n.parentInputType).name, n.name,
                                           NodeSuppliesNull(n, expectedNull) >> }
                ELSE occurrences
          /\ UNCHANGED enumOccurrences

\* lines 140-150
VisitEnumValue ==
    /\ pc = "scan"
    /\ nodeIdx < numNodes
    /\ \E n \in EnumValueNodes :
          /\ \E r \in { visitEnumValue(trace, n) } : Visit(n, r)
          /\ enumOccurrences' =
                IF ValidNode(n)
                THEN enumOccurrences \cup { << getNamedType(n.inputType).name, n.value >> }
                ELSE enumOccurrences
          /\ UNCHANGED occurrences

\* line 151: the visit is over and the call returns
Return ==
    /\ pc = "scan"
    /\ nodeIdx = numNodes
    /\ pc' = "committed"
    /\ UNCHANGED << numVarDefinitions, numNodes, varIdx, nodeIdx, trace,
                    nullVariableNames, node, thrown, history, walker >>

\* lines 152-160
Catch ==
    /\ pc = "catch"
    /\ trace' = catchClear(trace)
    /\ pc' = "discarded"
    /\ partial' = (trace # EmptyTrace)
    /\ UNCHANGED << numVarDefinitions, numNodes, varIdx, nodeIdx, nullVariableNames,
                    node, thrown, expectedNull, occurrences, enumOccurrences, valid,
                    violated, undeclaredKey, nonRecord, walker >>

Next ==
    \/ ClassifyVariable
    \/ BeginScan
    \/ VisitObjectField
    \/ VisitEnumValue
    \/ Return
    \/ Catch

Spec == Init /\ [][Next]_vars

\* the call runs to completion: it is synchronous and has no suspension point
FairSpec == Spec /\ WF_vars(Next)

(***************************************************************************)
(* The walker on its own: a value walked against List(T) as it is, and     *)
(* boxed in a list of one.                                                 *)
(***************************************************************************)
ElementTypes ==
    { Scalar("String"), NonNull(Scalar("Int")), Scalar("Date"), Enum("Color"),
      List(Enum("Color")), InputObject("Filter"), InputObject("Page") }

WalkValues == ProvidedValues(InputObject("Filter")) \ { JsUndefined }

\* the trace the walk starts from
StartTraces ==
    { EmptyTrace, inputFieldIsInRequest(EmptyTrace, "Filter", "name", "String", TRUE) }

InitWalk ==
    /\ pc = "walker"
    /\ numVarDefinitions = 0
    /\ numNodes = 0
    /\ varIdx = 0
    /\ nodeIdx = 0
    /\ trace = EmptyTrace
    /\ nullVariableNames = {}
    /\ node = NoNode
    /\ thrown = NoError
    /\ expectedNull = {}
    /\ occurrences = {}
    /\ enumOccurrences = {}
    /\ valid = TRUE
    /\ violated = FALSE
    /\ undeclaredKey = FALSE
    /\ nonRecord = FALSE
    /\ partial = FALSE
    /\ walkInput = NoWalk
    /\ bare = NoWalk
    /\ boxed = NoWalk

\* addTraceInputValueStats({ trace, inputValue: value, inputType: List(T) })
WalkBare ==
    /\ walkInput = NoWalk
    /\ \E value \in WalkValues, type \in ElementTypes, start \in StartTraces :
          /\ walkInput' = [value |-> value, type |-> type, trace |-> start]
          /\ bare' = addTraceInputValueStats(start, value, List(type))
    /\ UNCHANGED << state, history, boxed >>

\* addTraceInputValueStats({ trace, inputValue: [value], inputType: List(T) })
WalkBoxed ==
    /\ walkInput # NoWalk
    /\ boxed = NoWalk
    /\ boxed' = addTraceInputValueStats(walkInput.trace, Arr(<< walkInput.value >>),
                                        List(walkInput.type))
    /\ UNCHANGED << state, history, walkInput, bare >>

NextWalk ==
    \/ WalkBare
    \/ WalkBoxed

WalkSpec == InitWalk /\ [][NextWalk]_vars

(***************************************************************************)
(* Reading the summary.                                                    *)
(***************************************************************************)
\* the << type, field >> pairs the summary holds
RecordedFields(tr) ==
    UNION { { << t, f >> : f \in DOMAIN tr.perInputTypeStat[t].perInputFieldStat } :
            t \in DOMAIN tr.perInputTypeStat }

\* the << enum type, value >> pairs the summary holds
RecordedEnumValues(tr) ==
    UNION { { << t, v >> : v \in DOMAIN tr.perEnumTypeStat[t].perEnumValueStat } :
            t \in DOMAIN tr.perEnumTypeStat }

FieldStat(tr, t, f) == tr.perInputTypeStat[t].perInputFieldStat[f]

EnumStat(tr, t, v) == tr.perEnumTypeStat[t].perEnumValueStat[v]

\* the call has returned to its caller
Returned == pc \in { "committed", "discarded", "propagated" }

(***************************************************************************)
(* The claims.                                                             *)
(***************************************************************************)
\* C1: when a declared variable breaks its declaration (unresolvable type,
\* required variable omitted, null for a non-null variable, or a failing walk
\* of its provided value), the call returns with both mappings empty, whatever
\* had been written before the failure.
C1_DiscardOnViolation ==
    (Returned /\ violated) => (pc = "discarded" /\ trace = EmptyTrace)

\* a second variable failed after statistics of the request had been written
C1_Witness ==
    /\ pc = "discarded"
    /\ violated
    /\ partial
    /\ varIdx = 1

\* C2: no error leaves the call: every error of the variable classification,
\* of the value walk and of the document scan goes to the one catch block and
\* the call returns normally, committed or discarded.
C2_NeverPropagates ==
    /\ [](pc # "propagated")
    /\ [](thrown # NoError => pc \in { "catch", "discarded" })
    /\ <>(pc \in { "committed", "discarded" })

\* an error of the document scan was caught and the request discarded
C2_Witness ==
    /\ pc = "discarded"
    /\ thrown = "TypeError"
    /\ nodeIdx = 1

\* C3: closed-field law: when a provided variable value holds, for an
\* input-object type, a key the type does not declare, the request ends with
\* both mappings empty, whatever was recorded before.
C3_ClosedFieldLaw ==
    (Returned /\ undeclaredKey) => (pc = "discarded" /\ trace = EmptyTrace)

\* the undeclared key was found after declared fields had been recorded
C3_Witness ==
    /\ pc = "discarded"
    /\ undeclaredKey
    /\ partial
    /\ thrown = "Input object type does not have provided field name."

\* C4: presence flags, not counters: in every state every requestCount of the
\* summary is 1 and every requestCountNull is 0 or 1, however often the same
\* field or enum value is recorded.
C4_PresenceFlags ==
    /\ \A p \in RecordedFields(trace) :
          /\ FieldStat(trace, p[1], p[2]).requestCount = 1
          /\ FieldStat(trace, p[1], p[2]).requestCountNull \in { 0, 1 }
    /\ \A p \in RecordedEnumValues(trace) : EnumStat(trace, p[1], p[2]).requestCount = 1

\* two document nodes were recorded and the summary holds one field only:
\* the same pair was recorded at least twice
C4_Witness ==
    /\ pc = "committed"
    /\ nodeIdx = 2
    /\ << "Filter", "name", FALSE >> \in occurrences
    /\ RecordedFields(trace) = { << "Filter", "name" >> }
    /\ RecordedEnumValues(trace) = {}

C6_ValidCommitted ==
    (Returned /\ valid) =>
        /\ pc = "committed"
        /\ RecordedFields(trace) = { << o[1], o[2] >> : o \in occurrences }
        /\ RecordedEnumValues(trace) = enumOccurrences
        /\ (occurrences # {} \/ enumOccurrences # {}) => trace # EmptyTrace
        /\ \A p \in RecordedFields(trace) :
              FieldStat(trace, p[1], p[2]).fieldType
                  = typeToString(DeclaredFieldType(p[1], p[2]))

\* a valid request that references a list field, a nested field and an enum
C6_Witness ==
    /\ pc = "committed"
    /\ valid
    /\ << "Filter", "tags", FALSE >> \in occurrences
    /\ << "Page", "size", FALSE >> \in occurrences
    /\ enumOccurrences # {}

\* C7: as long as the request has not failed, and so in the committed
\* summary, requestCountNull of a recorded field is 1 exactly when one of its
\* occurrences so far supplied null; a later occurrence that is not null does
\* not reset it.
C7_NullFlag ==
    pc \in { "variables", "scan", "committed" } =>
        \A p \in RecordedFields(trace) :
            (FieldStat(trace, p[1], p[2]).requestCountNull = 1)
                <=> << p[1], p[2], TRUE >> \in occurrences

\* the field was supplied null, and last of all not null by a document node
C7_Witness ==
    /\ pc = "committed"
    /\ << "Filter", "name", TRUE >> \in occurrences
    /\ node.kind = "ObjectField"
    /\ node.name = "name"
    /\ node.value.kind = "StringValue"
    /\ FieldStat(trace, "Filter", "name").requestCountNull = 1

\* C8: when the document scan runs, nullVariableNames holds exactly the
\* effectively null variables (omitted with no default or a null default, or
\* provided null), and an object-field node is recorded as null exactly when
\* its value is a null literal or a reference to one of them.
C8_NullVariables ==
    /\ [](pc \in { "scan", "committed" } => nullVariableNames = expectedNull)
    /\ [][(pc = "scan" /\ pc' = "scan" /\ node'.kind = "ObjectField") =>
            LET t == getNamedType(node'.parentInputType).name
                f == node'.name
                before == IF << t, f >> \in RecordedFields(trace)
                          THEN FieldStat(trace, t, f).requestCountNull ELSE 0
            IN  FieldStat(trace', t, f).requestCountNull
                    = IF NodeSuppliesNull(node', expectedNull) THEN 1 ELSE before]_vars

\* a node referring to a variable omitted with a null default was recorded
C8_Witness ==
    /\ pc = "scan"
    /\ node.kind = "ObjectField"
    /\ node.value.kind = "Variable"
    /\ node.value.name \in nullVariableNames
    /\ FieldStat(trace, getNamedType(node.parentInputType).name, node.name).requestCountNull = 1

\* C9: a non-null value that is no keyed record (a primitive, a list, the
\* empty list included), given for an input-object type, fails the walk and
\* the request is discarded.
C9_NonRecordDiscarded ==
    (Returned /\ nonRecord) => pc = "discarded"

\* C10: the scan begins only when every declared variable has been classified
\* and walked without error; at the first error nothing more is walked or
\* recorded, the scan does not run, and the request ends discarded; an error
\* of the scan ends discarded too, never committed.
C10_Order ==
    /\ [](pc \in { "scan", "committed" } => (varIdx = numVarDefinitions /\ thrown = NoError))
    /\ []((pc = "discarded" /\ varIdx < numVarDefinitions) => (nodeIdx = 0 /\ node = NoNode))
    /\ [][/\ (thrown = NoError /\ thrown' # NoError) => pc' = "catch"
          /\ thrown # NoError =>
                /\ pc' = "discarded"
                /\ trace' = EmptyTrace
                /\ varIdx' = varIdx
                /\ nodeIdx' = nodeIdx
                /\ node' = node
          /\ pc' = "committed" => (pc = "scan" /\ nodeIdx = numNodes /\ thrown = NoError)
          /\ pc = "discarded" => pc' = "discarded"]_vars
    /\ (thrown # NoError) ~> (pc = "discarded")

\* the second of two variables failed: the scan never ran
C10_Witness ==
    /\ pc = "discarded"
    /\ numVarDefinitions = 2
    /\ varIdx = 1
    /\ nodeIdx = 0
    /\ node = NoNode
====
